---- MODULE Spec2Model ----
(***************************************************************************)
(* Model of the tabular cleaning core of the AI-Analyst repository:        *)
(* DataProcessor.process_data and its three steps (duplicate removal,      *)
(* imputation, format standardisation) in src/modules/data_processor.py.   *)
(*                                                                         *)
(* A DataFrame is a record [dtype, rows]: dtype is the tuple of column     *)
(* dtypes, rows the sequence of rows, a row the tuple of its cells.        *)
(* Frames live in a heap of objects so that aliasing (copy versus in-place *)
(* assignment) is visible.  Floats are exact rationals n/d.                *)
(*                                                                         *)
(* Further parts: StatisticalAnalyzer (statistics, correlation matrix,     *)
(* outlier screening) in src/modules/statistical_analyzer.py; the upload   *)
(* and analysis callbacks and interpret_correlation of src/app.py; and the *)
(* writing and reading back of report files by concurrent requests         *)
(* (src/modules/report_generator.py, generate_report of src/app.py).       *)
(* Each part has its own specification; the variables of the other parts   *)
(* stay idle in it.                                                        *)
(***************************************************************************)
EXTENDS Integers, Sequences, FiniteSets, TLC

VARIABLES heap, df, arg, before, excs, ret, raised, first, pc

\* The analyser called on one table: the table, the call, what it gave.
VARIABLES tbl, call, result

\* The dashboard: the uploaded table, the 'stored-data' store, the table the
\* latest analysis callback computed on, and that callback.
VARIABLES uploaded, stored, analysed, view

\* The dashboard's outputs: the upload status and the styles of the three
\* sections, the cards of the insights tab, and the latest report request
\* (its analysis results, the story of the PDF, what the callback returned).
VARIABLES ui, insights, report

\* The process-wide logger 'data_analyst_agent': the number of file handlers
\* attached to it and the records the latest handle_error call wrote.
VARIABLES logger

\* Report generation: the clock in seconds, the files of reports/, and the
\* state of each request.
VARIABLES now, files, job

\* interpret_correlation: the coefficient passed, the label returned.
VARIABLES corr, label

cleanVars == <<heap, df, arg, before, excs, ret, raised, first, pc>>

statVars == <<tbl, call, result>>

appVars == <<uploaded, stored, analysed, view, ui, insights, report, logger>>

repVars == <<now, files, job>>

labelVars == <<corr, label>>

otherVars == <<statVars, appVars, repVars, labelVars>>

vars == <<cleanVars, otherVars>>

\* ---------------------------------------------------------------- bounds
MaxRows == 4
MaxThreshRows == 10
MaxStatRows == 5
MaxRepeat == 10
MaxCorrRows == 3
MaxTextRows == 2
MaxSessions == 2
MaxClock == 2
MaxDenominator == 20
MaxUploads == 3
MaxCardRows == 30

\* The rows of an uploaded table of numbers and text with many distinct values.
MaxInsightRows == 22

\* ----------------------------------------------------------------- cells
\* Every cell is a record of one shape: k is the kind of value.
NaN == [k |-> "nan", s |-> "", n |-> 0, d |-> 1]
NaT == [k |-> "nat", s |-> "", n |-> 0, d |-> 1]
Str(x) == [k |-> "str", s |-> x, n |-> 0, d |-> 1]
Ts(t) == [k |-> "ts", s |-> "", n |-> t, d |-> 1]

RECURSIVE Gcd(_, _)
Gcd(a, b) == IF b = 0 THEN a ELSE Gcd(b, a % b)

Abs(a) == IF a < 0 THEN -a ELSE a

\* The float n/d, in lowest terms with d > 0.
Num(a, b) ==
  LET g == Gcd(Abs(a), Abs(b))
      sg == IF b < 0 THEN -1 ELSE 1
  IN [k |-> "num", s |-> "", n |-> sg * (a \div g), d |-> sg * (b \div g)]

IsNA(c) == c.k \in {"nan", "nat"}

\* ------------------------------------------------------- string library
\* Python's str ordering (code points) on the strings of the model.
StrOrder ==
  <<"", "2021-01-05", "7", "9", "NaT", "Y", "Y ", "nan", "nat", "x", "y", "y ">>

StrRank(x) == CHOOSE i \in 1..Len(StrOrder) : StrOrder[i] = x

StrLess(x, y) == StrRank(x) < StrRank(y)

\* str.strip(): leading and trailing whitespace removed.
Strip(x) == CASE x = "Y " -> "Y" [] x = "y " -> "y" [] OTHER -> x

\* str.lower().
Lower(x) ==
  CASE x = "Y" -> "y" [] x = "Y " -> "y " [] x = "NaT" -> "nat" [] OTHER -> x

\* pd.to_datetime(errors='coerce') on one cell of a string column: the one
\* calendar date of the model, 2021-01-05, is day 18632 of the epoch; every
\* other string of the model ("NaT" and "nat" included) gives NaT.
to_datetime(c) ==
  IF c.k = "str" /\ c.s = "2021-01-05" THEN Ts(18632)
  ELSE IF c.k = "ts" THEN c
  ELSE NaT

\* pd.to_numeric(errors='coerce') on one cell of a string column.
to_numeric(c) ==
  IF c.k = "str" /\ c.s = "7" THEN Num(7, 1)
  ELSE IF c.k = "str" /\ c.s = "9" THEN Num(9, 1)
  ELSE IF c.k = "num" THEN c
  ELSE NaN

\* Series.astype(str) on one cell: NaN prints "nan", NaT prints "NaT".
astype_str(c) ==
  CASE c.k = "str" -> c
    [] c.k = "nan" -> Str("nan")
    [] c.k = "nat" -> Str("NaT")
    [] c.k = "ts"  -> Str("2021-01-05")
    [] OTHER -> c

\* ---------------------------------------------------------------- frames
NCols(t) == Len(t.dtype)

Cols(t) == 1..NCols(t)

Column(t, c) == [i \in 1..Len(t.rows) |-> t.rows[i][c]]

\* df[c] = col: the column's cells and its dtype are replaced.
SetColumn(t, c, col, dt) ==
  [dtype |-> [t.dtype EXCEPT ![c] = dt],
   rows |-> [i \in 1..Len(t.rows) |-> [t.rows[i] EXCEPT ![c] = col[i]]]]

\* Series.notna().sum()
NotNaCount(col) == Cardinality({i \in DOMAIN col : ~IsNA(col[i])})

\* df.select_dtypes(include=['number']) / (exclude=['number']) / (include=['object'])
numeric_cols(t) == {c \in Cols(t) : t.dtype[c] = "number"}

categorical_cols(t) == {c \in Cols(t) : t.dtype[c] # "number"}

object_cols(t) == {c \in Cols(t) : t.dtype[c] = "object"}

\* ------------------------------------------------------ _remove_duplicates
RECURSIVE KeepFirst(_, _)
KeepFirst(rows, seen) ==
  IF rows = <<>> THEN <<>>
  ELSE IF Head(rows) \in seen THEN KeepFirst(Tail(rows), seen)
  ELSE <<Head(rows)>> \o KeepFirst(Tail(rows), seen \cup {Head(rows)})

\* A plausible slip: keep='last' instead of the default keep='first'.
RECURSIVE KeepLast(_)
KeepLast(rows) ==
  IF rows = <<>> THEN <<>>
  ELSE IF \E j \in 1..Len(Tail(rows)) : Tail(rows)[j] = Head(rows)
       THEN KeepLast(Tail(rows))
  ELSE <<Head(rows)>> \o KeepLast(Tail(rows))

drop_duplicates_last(t) == [t EXCEPT !.rows = KeepLast(t.rows)]

\* df.drop_duplicates(): the first occurrence of every row is kept, in order;
\* missing cells compare equal.  The result is a new frame.
drop_duplicates(t) == [t EXCEPT !.rows = KeepFirst(t.rows, {})]

\* -------------------------------------------------------------- imputers
RECURSIVE SumNum(_, _)
\* The sum, as a pair <<n, d>>, of the non-missing cells of col[i..].
SumNum(col, i) ==
  IF i > Len(col) THEN <<0, 1>>
  ELSE LET r == SumNum(col, i + 1)
       IN IF IsNA(col[i]) THEN r
          ELSE <<col[i].n * r[2] + r[1] * col[i].d, col[i].d * r[2]>>

\* SimpleImputer(strategy='mean'): the statistic of one column.
Mean(col) ==
  LET sm == SumNum(col, 1)
  IN Num(sm[1], sm[2] * NotNaCount(col))

CountOf(col, v) == Cardinality({i \in DOMAIN col : col[i] = v})

Observed(col) == {col[i] : i \in {j \in DOMAIN col : ~IsNA(col[j])}}

\* SimpleImputer(strategy='most_frequent'): the statistic of one column; among
\* the values of highest count the smallest is taken (sklearn's _most_frequent).
most_frequent(col) ==
  LET vals == Observed(col)
      best == CHOOSE m \in {CountOf(col, v) : v \in vals} :
                \A v \in vals : CountOf(col, v) <= m
      cands == {v \in vals : CountOf(col, v) = best}
  IN CHOOSE v \in cands : \A w \in cands : w = v \/ StrLess(v.s, w.s)

\* transform(): the missing cells of a column replaced by its statistic.
Fill(col, stat) == [i \in DOMAIN col |-> IF IsNA(col[i]) THEN stat ELSE col[i]]

\* A column without a single observed value: fit_transform drops it from the
\* array it returns.
AllMissing(col) == NotNaCount(col) = 0

\* Lines 60-64 on one cell: astype(str), then '' and 'nan' replaced by NaN.
Stringify(c) ==
  LET x == astype_str(c)
  IN IF x.k = "str" /\ x.s \in {"", "nan"} THEN NaN ELSE x

RECURSIVE ForCols(_, _, _)
\* for c in cs: t = Op(t, c), in column order.
ForCols(Op(_, _), t, cs) ==
  IF cs = {} THEN t
  ELSE LET c == CHOOSE x \in cs : \A y \in cs : x <= y
       IN ForCols(Op, Op(t, c), cs \ {c})

ImputeMean(t, c) == SetColumn(t, c, Fill(Column(t, c), Mean(Column(t, c))), "number")

StringifyColumn(t, c) ==
  SetColumn(t, c, [i \in 1..Len(t.rows) |-> Stringify(t.rows[i][c])], "object")

ImputeMostFrequent(t, c) ==
  SetColumn(t, c, Fill(Column(t, c), most_frequent(Column(t, c))), "object")

\* _handle_missing_values, in place on the frame it is given.  It gives the
\* frame as it is left and whether the call raised: the assignment
\* df[cols] = fit_transform(df[cols]) raises ValueError when the imputer has
\* dropped a column that is all missing.
_handle_missing_values(t) ==
  LET nc == numeric_cols(t)
      cc == categorical_cols(t)
  IN IF \E c \in nc : AllMissing(Column(t, c))
       THEN [raised |-> TRUE, t |-> t]
     ELSE LET t2 == ForCols(ImputeMean, t, nc)
              t3 == ForCols(StringifyColumn, t2, cc)
          IN IF \E c \in cc : AllMissing(Column(t3, c))
               THEN [raised |-> TRUE, t |-> t3]
             ELSE [raised |-> FALSE, t |-> ForCols(ImputeMostFrequent, t3, cc)]

\* ---------------------------------------------------- _standardize_formats
MapCol(Op(_), col) == [i \in DOMAIN col |-> Op(col[i])]

\* Line 85: notna().sum() / len(df) < 0.7, exactly, in integers.
BelowThreshold(cnt, len) == 10 * cnt < 7 * len

\* Line 96: notna().sum() / len(df) > 0.7, exactly, in integers.
AboveThreshold(cnt, len) == 10 * cnt > 7 * len

StripLower(c) == IF c.k = "str" THEN Str(Lower(Strip(c.s))) ELSE c

\* Lines 81-89 on column c; exc is the set of columns on which pd.to_datetime
\* raises, which the bare except swallows, leaving the column as it was.
TryDatetime(t, c, exc) ==
  IF c \in exc THEN t
  ELSE LET parsed == MapCol(to_datetime, Column(t, c))
       IN IF BelowThreshold(NotNaCount(parsed), Len(t.rows))
            THEN SetColumn(t, c, MapCol(astype_str, parsed), "object")
          ELSE SetColumn(t, c, parsed, "datetime")

\* Lines 92-100 on column c.
TryNumeric(t, c) ==
  IF t.dtype[c] # "object" THEN t
  ELSE LET numeric_series == MapCol(to_numeric, Column(t, c))
       IN IF AboveThreshold(NotNaCount(numeric_series), Len(t.rows))
            THEN SetColumn(t, c, numeric_series, "number")
          ELSE SetColumn(t, c, MapCol(StripLower, Column(t, c)), "object")

RECURSIVE StandardizeCols(_, _, _)
StandardizeCols(t, cs, exc) ==
  IF cs = {} THEN t
  ELSE LET c == CHOOSE x \in cs : \A y \in cs : x <= y
       IN StandardizeCols(TryNumeric(TryDatetime(t, c, exc), c), cs \ {c}, exc)

\* _standardize_formats, in place: every column that is of dtype object when
\* the loop starts is tried as datetime, then as numeric, then lower-cased.
_standardize_formats(t, exc) == StandardizeCols(t, object_cols(t), exc)

\* ------------------------------------------------------------ process_data
\* A new object holding frame t; its reference is the new length of the heap.
Alloc(h, t) == Append(h, t)

\* (a slip: the steps run on the caller's frame, duplicates dropped in place)
process_data_inplace(h, r, exc) ==
  LET hm == _handle_missing_values(drop_duplicates(h[r]))
  IN IF hm.raised
       THEN [heap |-> [h EXCEPT ![r] = hm.t], raised |-> TRUE, ret |-> 0]
     ELSE [heap |-> [h EXCEPT ![r] = _standardize_formats(hm.t, exc)],
           raised |-> FALSE, ret |-> r]

\* process_data(df) on the frame at reference r of heap h: the heap after the
\* call, whether it raised, and the reference returned (0 when it raised).
process_data(h, r, exc) ==
  LET h1 == Alloc(h, h[r])                        \* processed_df = df.copy()
      p1 == Len(h1)
      h2 == Alloc(h1, drop_duplicates(h1[p1]))    \* a new frame
      p2 == Len(h2)
      hm == _handle_missing_values(h2[p2])        \* in place on p2
  IN IF hm.raised
       THEN [heap |-> [h2 EXCEPT ![p2] = hm.t], raised |-> TRUE, ret |-> 0]
     ELSE [heap |-> [h2 EXCEPT ![p2] = _standardize_formats(hm.t, exc)],
           raised |-> FALSE, ret |-> p2]

\* --------------------------------------------------------------- inputs
\* An uploaded table as read_csv gives it: a float column A, a text column B.
Schema == <<"number", "object">>

\* The rows an uploaded table is made of.
RowPool ==
  {<<Num(1, 1), Str("x")>>, <<Num(3, 1), Str("y")>>, <<NaN, Str("x")>>,
   <<Num(1, 1), NaN>>, <<Num(3, 1), Str("7")>>, <<Num(1, 1), Str("9")>>,
   <<Num(3, 1), Str("2021-01-05")>>}

\* Every table of 1..MaxRows rows of the pool, in every order, repeats included.
Tables ==
  {[dtype |-> Schema, rows |-> rs] :
     rs \in UNION {[1..n -> RowPool] : n \in 1..MaxRows}}

\* The values of the text column of a threshold table.
ThreshVals ==
  {NaN, Str(""), Str("nan"), Str("x"), Str("Y "), Str("7"), Str("2021-01-05")}

\* A table of n rows, all distinct by their column A (the row number), whose
\* column B holds k cells a, then n - k cells b.
ThreshTable(n, k, a, b) ==
  [dtype |-> Schema,
   rows |-> [i \in 1..n |-> <<Num(i, 1), IF i <= k THEN a ELSE b>>]]

ThreshTables ==
  {ThreshTable(nk[1], nk[2], a, b) :
     nk \in {x \in (1..MaxThreshRows) \X (0..MaxThreshRows) : x[2] <= x[1]},
     a \in ThreshVals, b \in ThreshVals}

\* ---------------------------------------------------------- state machine
NoFrame == [dtype |-> <<>>, rows |-> <<>>]

\* The parts of the state a specification does not exercise stay as they are
\* before anything is called.
StatsIdle == tbl = NoFrame /\ call = <<>> /\ result = <<>>

\* The layout as built: nothing stored, no status, the metrics and analysis
\* sections hidden.
\* 'upload-status' with nothing in it (None).
NoAlert == [color |-> "", parts |-> <<>>]

NoUi == [status |-> NoAlert, metrics |-> "none", analysis |-> "none", features |-> "block"]

NoLogger == [handlers |-> 0, errors |-> 0, debugs |-> 0]

AppIdle ==
  /\ uploaded = NoFrame /\ stored = <<>> /\ analysed = <<>> /\ view = ""
  /\ ui = NoUi /\ insights = <<>> /\ report = <<>> /\ logger = NoLogger

ReportIdle == now = 0 /\ files = <<>> /\ job = <<>>

LabelIdle == corr = NaN /\ label = ""

OthersIdle == StatsIdle /\ AppIdle /\ ReportIdle /\ LabelIdle

\* heap: the frames; df: the caller's uploaded frame; arg, before: the
\* reference passed to the latest call and the frame it held when called;
\* excs: the columns on which pd.to_datetime raised in the latest call;
\* ret: the reference the latest call returned; raised: whether it raised;
\* first: the reference the first call returned.
Init ==
  /\ \E t \in Tables : heap = <<t>>
  /\ df = 1
  /\ arg = 0
  /\ before = [dtype |-> <<>>, rows |-> <<>>]
  /\ excs = {}
  /\ ret = 0
  /\ raised = FALSE
  /\ first = 0
  /\ pc = "uploaded"
  /\ OthersIdle

\* The tables of the threshold cases: up to MaxThreshRows distinct rows.
InitThreshold ==
  /\ \E t \in ThreshTables : heap = <<t>>
  /\ df = 1
  /\ arg = 0
  /\ before = [dtype |-> <<>>, rows |-> <<>>]
  /\ excs = {}
  /\ ret = 0
  /\ raised = FALSE
  /\ first = 0
  /\ pc = "uploaded"
  /\ OthersIdle

Call(r, exc) ==
  LET res == process_data(heap, r, exc)
  IN /\ heap' = res.heap
     /\ arg' = r
     /\ before' = heap[r]
     /\ excs' = exc
     /\ ret' = res.ret
     /\ raised' = res.raised

\* cleaned = process_data(df)
Clean ==
  /\ pc = "uploaded"
  /\ \E exc \in SUBSET categorical_cols(heap[df]) : Call(df, exc)
  /\ first' = ret'
  /\ pc' = "cleaned"
  /\ UNCHANGED <<df, otherVars>>

\* process_data(cleaned): the cleaner applied to its own output
CleanAgain ==
  /\ pc = "cleaned"
  /\ ~raised
  /\ \E exc \in SUBSET categorical_cols(heap[ret]) : Call(ret, exc)
  /\ pc' = "recleaned"
  /\ UNCHANGED <<df, first, otherVars>>

Next == Clean \/ CleanAgain

Spec == Init /\ [][Next]_vars

SpecThreshold == InitThreshold /\ [][Next]_vars

\* The runs in which pd.to_datetime never raises.
CleanCoerce == Clean /\ excs' = {}

CleanAgainCoerce == CleanAgain /\ excs' = {}

NextCoerce == CleanCoerce \/ CleanAgainCoerce

SpecCoerce == Init /\ [][NextCoerce]_vars

\* ------------------------------------------------------------ properties
\* The latest call returned a frame, Out.
Returned == pc # "uploaded" /\ ~raised

Out == heap[ret]

\* The positions of the rows of a frame that no earlier row equals.
FirstOcc(rows) == {i \in 1..Len(rows) : \A j \in 1..(i - 1) : rows[j] # rows[i]}

\* The i-th smallest member of a set of numbers.
NthOf(S, i) == CHOOSE x \in S : Cardinality({y \in S : y < x}) = i - 1

\* The row of the frame passed in that row i of the result stands for.
Src(i) == before.rows[NthOf(FirstOcc(before.rows), i)]

\* A cell the cleaner is to take as missing: NaN, NaT, '' or 'nan'.
MissingIn(c) == IsNA(c) \/ (c.k = "str" /\ c.s \in {"", "nan"})

\* C3: a call that returns gives one row per distinct row of its input, the
\* rows standing, in order, for the first occurrences of the input's rows (a
\* number the input row holds is the number the output row holds); so the
\* output is never longer than the input.
C3_DedupKeepsFirst ==
  Returned =>
    /\ Len(Out.rows) = Cardinality({before.rows[i] : i \in 1..Len(before.rows)})
    /\ Len(Out.rows) <= Len(before.rows)
    /\ \A i \in 1..Len(Out.rows) : \A c \in numeric_cols(before) :
         ~IsNA(Src(i)[c]) => Out.rows[i][c] = Src(i)[c]

\* C3 witness: rows (1,x), (1,x), (3,y) come back as two rows.
C3_Witness ==
  /\ pc = "cleaned" /\ ~raised
  /\ before.rows = <<<<Num(1, 1), Str("x")>>, <<Num(1, 1), Str("x")>>,
                     <<Num(3, 1), Str("y")>>>>
  /\ Len(Out.rows) = 2
  /\ Out.rows[2][1] = Num(3, 1)

\* C4: after a call, returned or raised, the frame passed in is as it was.
C4_InputNotMutated == pc # "uploaded" => heap[arg] = before

\* C4 witness: a call that changed cells and dropped rows in its result while
\* the frame passed in kept them.
C4_Witness ==
  /\ pc = "cleaned" /\ ~raised /\ ret # arg
  /\ Len(Out.rows) < Len(heap[arg].rows)
  /\ \E i \in 1..Len(heap[arg].rows) : IsNA(heap[arg].rows[i][1])
  /\ heap[arg] = before

\* The column c of the frame passed in, duplicates dropped, one cell per row
\* of the result.
SrcCol(c) == [i \in 1..Len(Out.rows) |-> Src(i)[c]]

\* C1: cleaning the cleaned table gives the cleaned table again, same rows
\* in the same order, same column types, same cells.
C1_Idempotent == pc = "recleaned" => (~raised /\ heap[ret] = heap[first])

Parsed(op(_), col) == NotNaCount(MapCol(op, col))

\* C5: where pd.to_datetime did not raise, a text column without missing
\* cells of which exactly 70% parse as datetimes comes back Datetime, and one
\* of which exactly 70% parse as numbers and fewer as datetimes comes back
\* Numeric.
C5_InclusiveThreshold ==
  (pc = "cleaned" /\ ~raised /\ excs = {}) =>
    \A c \in object_cols(before) :
      LET col == SrcCol(c)
          len == Len(col)
      IN (\A i \in 1..len : ~MissingIn(col[i])) =>
           /\ 10 * Parsed(to_datetime, col) = 7 * len => Out.dtype[c] = "datetime"
           /\ (10 * Parsed(to_numeric, col) = 7 * len
                 /\ 10 * Parsed(to_datetime, col) < 7 * len)
                => Out.dtype[c] = "number"

\* C6: where pd.to_datetime did not raise, a text column without missing
\* cells of which fewer than 70% parse as datetimes and fewer than 70% as
\* numbers comes back Categorical, every cell its input value trimmed and
\* lower-cased.
C6_CategoricalPreserved ==
  (pc = "cleaned" /\ ~raised /\ excs = {}) =>
    \A c \in object_cols(before) :
      LET col == SrcCol(c)
          len == Len(col)
      IN (/\ \A i \in 1..len : ~MissingIn(col[i])
          /\ 10 * Parsed(to_datetime, col) < 7 * len
          /\ 10 * Parsed(to_numeric, col) < 7 * len)
         => /\ Out.dtype[c] = "object"
            /\ \A i \in 1..len : Out.rows[i][c] = StripLower(col[i])

\* C7: a call on a table with a column whose cells are all missing returns:
\* it does not raise, and the column comes back Categorical, all missing.
C7_AllMissingColumnNoCrash ==
  pc = "cleaned" =>
    \A c \in Cols(before) :
      (\A i \in 1..Len(before.rows) : MissingIn(before.rows[i][c])) =>
        /\ ~raised
        /\ Out.dtype[c] = "object"
        /\ \A i \in 1..Len(Out.rows) : IsNA(Out.rows[i][c])

\* The mean of the cells of a column that hold a number or a numeric string.
MeanOfObserved(col) == Mean(MapCol(to_numeric, col))

FirstMostFrequent(col) ==
  LET pres == {i \in DOMAIN col : ~MissingIn(col[i])}
      best == CHOOSE i \in pres : \A j \in pres :
                CountOf(col, col[j]) <= CountOf(col, col[i])
      tops == {i \in pres : CountOf(col, col[i]) = CountOf(col, col[best])}
  IN col[CHOOSE i \in tops : \A j \in tops : i <= j]

\* C9: in every column that comes back Categorical, a cell that was missing
\* in the input is filled with the column's most frequent value, the first met
\* among the most frequent: it holds what the cells of that value hold.
C9_ModeFirstEncountered ==
  (pc = "cleaned" /\ ~raised) =>
    \A c \in object_cols(before) : Out.dtype[c] = "object" =>
      LET col == SrcCol(c)
      IN \A i \in 1..Len(col) : MissingIn(col[i]) =>
           \A j \in 1..Len(col) :
             (~MissingIn(col[j]) /\ col[j] = FirstMostFrequent(col))
               => Out.rows[i][c] = Out.rows[j][c]

\* C10: in every column that comes back Datetime, a cell that was missing in
\* the input, or that does not parse as a datetime, is missing.
C10_DatetimeNotImputed ==
  (pc = "cleaned" /\ ~raised) =>
    \A c \in Cols(Out) : Out.dtype[c] = "datetime" =>
      \A i \in 1..Len(Out.rows) :
        (MissingIn(SrcCol(c)[i]) \/ IsNA(to_datetime(SrcCol(c)[i])))
          => IsNA(Out.rows[i][c])

\* ------------------------------------------------------ float arithmetic
\* Arithmetic and comparison of float cells; NaN propagates through the
\* arithmetic and compares False with everything.
FAdd(a, b) ==
  IF IsNA(a) \/ IsNA(b) THEN NaN ELSE Num(a.n * b.d + b.n * a.d, a.d * b.d)

FSub(a, b) ==
  IF IsNA(a) \/ IsNA(b) THEN NaN ELSE Num(a.n * b.d - b.n * a.d, a.d * b.d)

FMul(a, b) == IF IsNA(a) \/ IsNA(b) THEN NaN ELSE Num(a.n * b.n, a.d * b.d)

FLess(a, b) == ~IsNA(a) /\ ~IsNA(b) /\ a.n * b.d < b.n * a.d

\* The observed values of a column in ascending order.
Sorted(col) == SortSeq(SelectSeq(col, LAMBDA c : ~IsNA(c)), FLess)

\* Series.quantile(k / 4), interpolation='linear': the value at the position
\* (m - 1) * k / 4 of the m sorted observed values, interpolated between the
\* two neighbours when the position is fractional; NaN without observations.
quantile(col, k) ==
  LET s == Sorted(col)
      h == (Len(s) - 1) * k
      lo == h \div 4
      fr == h % 4
  IN IF Len(s) = 0 THEN NaN
     ELSE IF fr = 0 THEN s[lo + 1]
     ELSE FAdd(s[lo + 1], FMul(Num(fr, 4), FSub(s[lo + 2], s[lo + 1])))

\* Series.mean(): NaN skipped, NaN without observations.
series_mean(col) == IF NotNaCount(col) = 0 THEN NaN ELSE Mean(col)

RECURSIVE SumSqDev(_, _, _)
\* The sum of the squared deviations from m of the observed cells of col[i..].
SumSqDev(col, m, i) ==
  IF i > Len(col) THEN Num(0, 1)
  ELSE IF IsNA(col[i]) THEN SumSqDev(col, m, i + 1)
  ELSE FAdd(FMul(FSub(col[i], m), FSub(col[i], m)), SumSqDev(col, m, i + 1))

\* Series.var(), ddof=1: NaN with fewer than two observations.  Series.std()
\* is its square root, which the model never takes: it compares squares.
series_var(col) ==
  IF NotNaCount(col) < 2 THEN NaN
  ELSE FMul(SumSqDev(col, series_mean(col), 1), Num(1, NotNaCount(col) - 1))

\* ------------------------------------------------------ identify_outliers
\* What a call gives: a boolean Series, a DataFrame (cells empty for
\* pd.DataFrame()), or an exception.
Series(f) == [kind |-> "Series", flags |-> f, cells |-> <<>>]

DataFrame(m) == [kind |-> "DataFrame", flags |-> <<>>, cells |-> m]

Raise(e) == [kind |-> e, flags |-> <<>>, cells |-> <<>>]

\* A plausible slip: the bounds themselves counted as outliers.
iqr_flags_inclusive(col) ==
  LET q1 == quantile(col, 1)
      q3 == quantile(col, 3)
      iqr == FSub(q3, q1)
      lower_bound == FSub(q1, FMul(Num(3, 2), iqr))
      upper_bound == FAdd(q3, FMul(Num(3, 2), iqr))
  IN [i \in 1..Len(col) |-> ~FLess(lower_bound, col[i]) \/ ~FLess(col[i], upper_bound)]

\* (df[column] < lower_bound) | (df[column] > upper_bound)
iqr_flags(col) ==
  LET q1 == quantile(col, 1)
      q3 == quantile(col, 3)
      iqr == FSub(q3, q1)
      lower_bound == FSub(q1, FMul(Num(3, 2), iqr))
      upper_bound == FAdd(q3, FMul(Num(3, 2), iqr))
  IN [i \in 1..Len(col) |-> FLess(col[i], lower_bound) \/ FLess(upper_bound, col[i])]

\* A plausible slip: the test written as not (abs(z) <= 3), which NaN passes.
abs_z_not_within_3(v, mean, var) ==
  LET dev == FSub(v, mean)
  IN IF IsNA(dev) \/ IsNA(var) THEN TRUE
     ELSE IF var.n = 0 THEN TRUE
     ELSE FLess(FMul(Num(9, 1), var), FMul(dev, dev))

\* abs((v - mean) / std) > 3 for one cell.  A NaN operand gives NaN, and so
\* does 0 / 0; a non-zero deviation over std = 0 gives an infinity.  NaN > 3 is
\* False.  With std > 0 the comparison is made on the squares.
abs_z_above_3(v, mean, var) ==
  LET dev == FSub(v, mean)
  IN IF IsNA(dev) \/ IsNA(var) THEN FALSE
     ELSE IF var.n = 0 THEN dev.n # 0
     ELSE FLess(FMul(Num(9, 1), var), FMul(dev, dev))

zscore_flags(col) ==
  LET mean == series_mean(col)
      var == series_var(col)
  IN [i \in 1..Len(col) |-> abs_z_above_3(col[i], mean, var)]

\* A plausible slip: the check that the column is in the table left out, so
\* that df[column] raises KeyError.
identify_outliers_unchecked(t, column, method) ==
  IF column \notin Cols(t) THEN Raise("KeyError")
  ELSE IF t.dtype[column] # "number"
  THEN Series([i \in 1..Len(t.rows) |-> FALSE])
  ELSE IF method = "iqr" THEN Series(iqr_flags(Column(t, column)))
  ELSE IF method = "zscore" THEN Series(zscore_flags(Column(t, column)))
  ELSE Raise("ValueError")

\* A plausible slip: the check that the column is numeric left out, so that
\* the arithmetic on a text column raises TypeError.
identify_outliers_any_dtype(t, column, method) ==
  IF column \notin Cols(t) THEN Series([i \in 1..Len(t.rows) |-> FALSE])
  ELSE IF method \notin {"iqr", "zscore"} THEN Raise("ValueError")
  ELSE IF t.dtype[column] # "number" THEN Raise("TypeError")
  ELSE IF method = "iqr" THEN Series(iqr_flags(Column(t, column)))
  ELSE Series(zscore_flags(Column(t, column)))

\* identify_outliers(df, column, method)
identify_outliers(t, column, method) ==
  IF column \notin Cols(t) \/ t.dtype[column] # "number"
  THEN Series([i \in 1..Len(t.rows) |-> FALSE])
  ELSE IF method = "iqr" THEN Series(iqr_flags(Column(t, column)))
  ELSE IF method = "zscore" THEN Series(zscore_flags(Column(t, column)))
  ELSE Raise("ValueError")

\* ------------------------------------------- calculate_correlation_matrix
\* numeric_df.empty: no numeric column, or no row.
IsEmpty(t, cs) == cs = {} \/ Len(t.rows) = 0

\* round(2) of a float: the nearest hundredth, a tie going to the even one.
Round2(c) ==
  IF IsNA(c) THEN c
  ELSE LET a == Abs(c.n) * 100
           fl == a \div c.d
           rem2 == 2 * (a % c.d)
           k == IF rem2 > c.d \/ (rem2 = c.d /\ fl % 2 = 1) THEN fl + 1 ELSE fl
       IN Num((IF c.n < 0 THEN -1 ELSE 1) * k, 100)

\* round(2) of the square root of q, for 0 <= q <= 1, in hundredths: the
\* count of the k with k + 0.5 < 100 * sqrt(q), moved up on an odd tie.
RoundSqrt2(q) ==
  LET lo == Cardinality({k \in 0..100 :
                           (2 * k + 1) * (2 * k + 1) * q.d < 40000 * q.n})
  IN IF (2 * lo + 1) * (2 * lo + 1) * q.d = 40000 * q.n /\ lo % 2 = 1
     THEN lo + 1 ELSE lo

\* The rows on which both columns are observed (pairwise deletion).
Both(x, y) == {i \in 1..Len(x) : ~IsNA(x[i]) /\ ~IsNA(y[i])}

Restrict(x, S) == [i \in 1..Len(x) |-> IF i \in S THEN x[i] ELSE NaN]

RECURSIVE SumCoDev(_, _, _, _, _)
\* The sum of the products of the deviations of x[i..] and y[i..].
SumCoDev(x, mx, y, my, i) ==
  IF i > Len(x) THEN Num(0, 1)
  ELSE IF IsNA(x[i]) THEN SumCoDev(x, mx, y, my, i + 1)
  ELSE FAdd(FMul(FSub(x[i], mx), FSub(y[i], my)), SumCoDev(x, mx, y, my, i + 1))

\* A plausible slip: the covariance divided by the variance of the first
\* column alone (the regression slope).
slope(x, y) ==
  LET S == Both(x, y)
      xs == Restrict(x, S)
      ys == Restrict(y, S)
      mx == series_mean(xs)
      my == series_mean(ys)
      sxy == SumCoDev(xs, mx, ys, my, 1)
      sxx == SumSqDev(xs, mx, 1)
  IN IF S = {} \/ sxx.n = 0 THEN NaN
     ELSE Round2(FMul(sxy, Num(sxx.d, sxx.n)))

\* One entry of DataFrame.corr().round(2): Pearson's r over the rows on which
\* both columns are observed; NaN without such rows or when a column is
\* constant on them (divisor 0).
pearson(x, y) ==
  LET S == Both(x, y)
      xs == Restrict(x, S)
      ys == Restrict(y, S)
      mx == series_mean(xs)
      my == series_mean(ys)
      sxy == SumCoDev(xs, mx, ys, my, 1)
      sxx == SumSqDev(xs, mx, 1)
      syy == SumSqDev(ys, my, 1)
  IN IF S = {} \/ sxx.n = 0 \/ syy.n = 0 THEN NaN
     ELSE Num((IF sxy.n < 0 THEN -1 ELSE 1)
                * RoundSqrt2(FMul(FMul(sxy, Num(sxx.d, sxx.n)),
                                  FMul(sxy, Num(syy.d, syy.n)))),
              100)

\* calculate_correlation_matrix(df)
calculate_correlation_matrix(t) ==
  LET cs == numeric_cols(t)
  IN IF IsEmpty(t, cs) THEN DataFrame(<<>>)
     ELSE DataFrame([p \in cs \X cs |-> pearson(Column(t, p[1]), Column(t, p[2]))])

\* ------------------------------------------------ get_numerical_statistics
\* The rows of the statistics table the model keeps.  std, skew and kurtosis
\* are irrational in general and are left out.
StatNames ==
  {"count", "mean", "min", "25%", "50%", "75%", "max", "median", "missing",
   "missing_pct"}

Statistic(col, name) ==
  LET s == Sorted(col)
      missing == Len(col) - NotNaCount(col)
  IN CASE name = "count" -> Num(NotNaCount(col), 1)
       [] name = "mean" -> series_mean(col)
       [] name = "min" -> IF Len(s) = 0 THEN NaN ELSE s[1]
       [] name = "25%" -> quantile(col, 1)
       [] name \in {"50%", "median"} -> quantile(col, 2)
       [] name = "75%" -> quantile(col, 3)
       [] name = "max" -> IF Len(s) = 0 THEN NaN ELSE s[Len(s)]
       [] name = "missing" -> Num(missing, 1)
       [] name = "missing_pct" -> Round2(Num(missing * 100, Len(col)))

\* get_numerical_statistics(df)
get_numerical_statistics(t) ==
  LET cs == numeric_cols(t)
  IN IF IsEmpty(t, cs) THEN DataFrame(<<>>)
     ELSE DataFrame([p \in cs \X StatNames |->
                       Round2(Statistic(Column(t, p[1]), p[2]))])

\* ------------------------------------------------ the analyser's inputs
\* The values of a numeric column under analysis.
StatVals == {Num(1, 1), Num(2, 1), Num(3, 1), Num(4, 1), Num(100, 1)}

\* One numeric column of 1..MaxStatRows values, in every order.
OutlierTables ==
  {[dtype |-> <<"number">>, rows |-> [i \in 1..n |-> <<col[i]>>]] :
     n \in 1..MaxStatRows, col \in [1..MaxStatRows -> StatVals]}

\* One numeric column: k cells a, then a cell b, then (with gap) a missing cell.
RepeatTable(k, a, b, gap) ==
  [dtype |-> <<"number">>,
   rows |-> [i \in 1..k |-> <<a>>] \o <<(<<b>>)>> \o (IF gap THEN <<(<<NaN>>)>> ELSE <<>>)]

RepeatVals == {Num(1, 1), Num(2, 1), Num(4, 1)}

RepeatTables ==
  {RepeatTable(k, a, b, gap) :
     k \in 0..MaxRepeat, a \in RepeatVals, b \in RepeatVals, gap \in BOOLEAN}

\* Two numeric columns.
CorrRowPool ==
  {<<Num(1, 1), Num(1, 1)>>, <<Num(2, 1), Num(2, 1)>>, <<Num(2, 1), Num(3, 1)>>,
   <<Num(3, 1), Num(1, 1)>>, <<Num(3, 1), Num(2, 1)>>, <<NaN, Num(2, 1)>>,
   <<Num(2, 1), NaN>>}

CorrTables ==
  {[dtype |-> <<"number", "number">>, rows |-> rs] :
     rs \in UNION {[1..n -> CorrRowPool] : n \in 1..MaxCorrRows}}

\* No numeric column: one or two text columns.
TextTables ==
  {[dtype |-> dt, rows |-> rs] :
     dt \in {<<"object">>}, rs \in UNION {[1..n -> {<<Str("x")>>, <<Str("y")>>, <<NaN>>}] : n \in 1..MaxTextRows}}
    \cup
  {[dtype |-> dt, rows |-> rs] :
     dt \in {<<"object", "object">>},
     rs \in UNION {[1..n -> {<<Str("x"), Str("7")>>, <<Str("y"), NaN>>}] : n \in 1..MaxTextRows}}

\* One numeric and one text column.
MixedTables ==
  {[dtype |-> Schema, rows |-> rs] :
     rs \in UNION {[1..n -> RowPool] : n \in 1..MaxTextRows}}

StatTables ==
  OutlierTables \cup RepeatTables \cup CorrTables \cup TextTables \cup MixedTables

\* The column names a caller passes: 0 is a name no table has.
ColumnArgs == 0..2

\* The method names a caller passes: the two supported ones and another.
MethodArgs == {"iqr", "zscore", "mad"}

\* ------------------------------------------- the analyser's state machine
CleanIdle ==
  /\ heap = <<>>
  /\ df = 0
  /\ arg = 0
  /\ before = NoFrame
  /\ excs = {}
  /\ ret = 0
  /\ raised = FALSE
  /\ first = 0
  /\ pc = ""

InitStats ==
  /\ tbl \in StatTables
  /\ call = <<>>
  /\ result = <<>>
  /\ CleanIdle /\ AppIdle /\ ReportIdle /\ LabelIdle

\* The analyser keeps no state between calls: a behaviour is one call on the
\* table.
GetNumericalStatistics ==
  /\ call = <<>>
  /\ call' = <<"get_numerical_statistics", 0, "">>
  /\ result' = get_numerical_statistics(tbl)
  /\ UNCHANGED <<tbl, cleanVars, appVars, repVars, labelVars>>

CalculateCorrelationMatrix ==
  /\ call = <<>>
  /\ call' = <<"calculate_correlation_matrix", 0, "">>
  /\ result' = calculate_correlation_matrix(tbl)
  /\ UNCHANGED <<tbl, cleanVars, appVars, repVars, labelVars>>

IdentifyOutliers(column, method) ==
  /\ call = <<>>
  /\ call' = <<"identify_outliers", column, method>>
  /\ result' = identify_outliers(tbl, column, method)
  /\ UNCHANGED <<tbl, cleanVars, appVars, repVars, labelVars>>

NextStats ==
  \/ GetNumericalStatistics
  \/ CalculateCorrelationMatrix
  \/ \E column \in ColumnArgs, method \in MethodArgs : IdentifyOutliers(column, method)

SpecStats == InitStats /\ [][NextStats]_vars

\* -------------------------------------------- properties of the analyser
Called(name) == call # <<>> /\ call[1] = name

\* The latest call was identify_outliers(tbl, column, method) with column a
\* numeric column of the table.
OutliersOf(method) ==
  Called("identify_outliers") /\ call[3] = method /\ call[2] \in numeric_cols(tbl)

Arg == Column(tbl, call[2])

NoRowFlagged ==
  /\ result.kind = "Series"
  /\ result.flags = [i \in 1..Len(tbl.rows) |-> FALSE]

Two == Num(2, 1)

Three == Num(3, 1)

Five == Num(5, 1)

\* v < Q1 - 1.5 * IQR or v > Q3 + 1.5 * IQR, cleared of the fraction:
\* 2v < 5 Q1 - 3 Q3 or 2v > 5 Q3 - 3 Q1.
OutsideFences(v, q1, q3) ==
  \/ FLess(FMul(Two, v), FSub(FMul(Five, q1), FMul(Three, q3)))
  \/ FLess(FSub(FMul(Five, q3), FMul(Three, q1)), FMul(Two, v))

\* C11: identify_outliers with method 'iqr' on a numeric column gives a flag
\* per row, set exactly on the rows whose value is below Q1 - 1.5 IQR or above
\* Q3 + 1.5 IQR; on the column [1, 2, 3, 4, 100] exactly the 100 is flagged;
\* and when Q1 = Q3 exactly the observed values other than Q1 are flagged.
C11_IqrFences ==
  OutliersOf("iqr") =>
    LET q1 == quantile(Arg, 1)
        q3 == quantile(Arg, 3)
    IN /\ result.kind = "Series"
       /\ DOMAIN result.flags = 1..Len(Arg)
       /\ \A i \in 1..Len(Arg) : result.flags[i] <=> OutsideFences(Arg[i], q1, q3)
       /\ Arg = <<Num(1, 1), Num(2, 1), Num(3, 1), Num(4, 1), Num(100, 1)>>
            => result.flags = <<FALSE, FALSE, FALSE, FALSE, TRUE>>
       /\ q1 = q3 =>
            \A i \in 1..Len(Arg) : result.flags[i] <=> (~IsNA(Arg[i]) /\ Arg[i] # q1)

\* The column [1, 2, 3, 4, 100] has been screened and the 100 alone flagged.
C11_Witness ==
  /\ OutliersOf("iqr")
  /\ Arg = <<Num(1, 1), Num(2, 1), Num(3, 1), Num(4, 1), Num(100, 1)>>
  /\ result.flags = <<FALSE, FALSE, FALSE, FALSE, TRUE>>

\* (v - mean)^2 > 9 * var: abs((v - mean) / std) > 3 for std > 0.
BeyondThreeSigma(v, col) ==
  LET dev == FSub(v, series_mean(col))
  IN FLess(FMul(Num(9, 1), series_var(col)), FMul(dev, dev))

StdZeroOrUndefined(col) == IsNA(series_var(col)) \/ series_var(col).n = 0

\* C12: identify_outliers with method 'zscore' on a numeric column gives a
\* boolean per row, set exactly on the rows with abs((v - mean) / std) > 3;
\* when std is 0 or undefined (fewer than two observations) no row is flagged.
C12_ZScore ==
  OutliersOf("zscore") =>
    /\ result.kind = "Series"
    /\ DOMAIN result.flags = 1..Len(Arg)
    /\ \A i \in 1..Len(Arg) : result.flags[i] \in BOOLEAN
    /\ ~StdZeroOrUndefined(Arg) =>
         \A i \in 1..Len(Arg) : result.flags[i] <=> BeyondThreeSigma(Arg[i], Arg)
    /\ StdZeroOrUndefined(Arg) => NoRowFlagged

\* A z-score screening has flagged a row.
C12_Witness ==
  /\ OutliersOf("zscore")
  /\ \E i \in 1..Len(Arg) : result.flags[i]

\* C13: identify_outliers with a method other than 'iqr' and 'zscore' raises
\* ValueError, whatever the table and the column argument.
C13_UnknownMethodRaises ==
  (Called("identify_outliers") /\ call[3] \notin {"iqr", "zscore"})
    => result.kind = "ValueError"

C15_FewerThanTwoEmpty ==
  (Called("calculate_correlation_matrix") /\ Cardinality(numeric_cols(tbl)) < 2)
    => (result.kind = "DataFrame" /\ result.cells = <<>>)

HasVariance(col) == ~StdZeroOrUndefined(col)

\* C16: every matrix calculate_correlation_matrix returns is symmetric, has 1
\* on the diagonal for every numeric column of non-zero variance, and has all
\* its defined entries, as rounded to 2 decimals, between -1 and 1.
C16_CorrelationMatrixShape ==
  (Called("calculate_correlation_matrix") /\ result.cells # <<>>) =>
    LET cs == numeric_cols(tbl)
        m == result.cells
    IN /\ result.kind = "DataFrame"
       /\ DOMAIN m = cs \X cs
       /\ \A a \in cs, b \in cs : m[<<a, b>>] = m[<<b, a>>]
       /\ \A a \in cs : HasVariance(Column(tbl, a)) => m[<<a, a>>] = Num(1, 1)
       /\ \A p \in cs \X cs :
            \/ IsNA(m[p])
            \/ (m[p].k = "num" /\ m[p] = Round2(m[p])
                  /\ ~FLess(m[p], Num(-1, 1)) /\ ~FLess(Num(1, 1), m[p]))

\* A matrix over two columns came back with an entry strictly between 0 and 1.
C16_Witness ==
  /\ Called("calculate_correlation_matrix")
  /\ Cardinality(numeric_cols(tbl)) = 2
  /\ result.cells # <<>>
  /\ FLess(Num(0, 1), result.cells[<<1, 2>>])
  /\ FLess(result.cells[<<1, 2>>], Num(1, 1))

\* C17: on a table without a numeric column get_numerical_statistics and
\* calculate_correlation_matrix return the empty DataFrame, identify_outliers
\* with a supported method returns an all-False Series, and none raises.
C17_NoNumericColumns ==
  (call # <<>> /\ numeric_cols(tbl) = {}) =>
    /\ Called("get_numerical_statistics")
         => (result.kind = "DataFrame" /\ result.cells = <<>>)
    /\ Called("calculate_correlation_matrix")
         => (result.kind = "DataFrame" /\ result.cells = <<>>)
    /\ (Called("identify_outliers") /\ call[3] \in {"iqr", "zscore"})
         => NoRowFlagged

\* A text column of a table without numeric columns was screened and an
\* all-False Series came back.
C17_Witness ==
  /\ Called("identify_outliers")
  /\ call[3] = "iqr"
  /\ numeric_cols(tbl) = {}
  /\ call[2] \in Cols(tbl)
  /\ NoRowFlagged

\* ---------------------------------------------------- the dashboard (app)
\* A cell of a JSON document: null for a missing value.
Null == [k |-> "null", s |-> "", n |-> 0, d |-> 1]

\* df.to_json(date_format='iso', orient='split'): column labels and rows of
\* JSON values; the dtypes are not written, a missing cell is written null.
to_json(t) ==
  [columns |-> NCols(t),
   data |-> [i \in 1..Len(t.rows) |->
               [c \in Cols(t) |-> IF IsNA(t.rows[i][c]) THEN Null ELSE t.rows[i][c]]]]

\* float(x) succeeds on a JSON cell: a number, null, or a string that spells
\* a number.
Floatable(c) == c.k \in {"num", "null"} \/ (c.k = "str" /\ c.s \in {"7", "9", "nan"})

\* pd.read_json(data, orient='split'): null becomes NaN; a column all of whose
\* cells convert to float becomes a float column (strings that spell numbers
\* included), any other column keeps its strings.
read_json(j) ==
  LET cs == 1..j.columns
      numeric(c) == \A i \in 1..Len(j.data) : Floatable(j.data[i][c])
      cell(x, c) == IF x.k = "null" THEN NaN
                    ELSE IF numeric(c) THEN to_numeric(x)
                    ELSE x
  IN [dtype |-> [c \in cs |-> IF numeric(c) THEN "number" ELSE "object"],
      rows |-> [i \in 1..Len(j.data) |-> [c \in cs |-> cell(j.data[i][c], c)]]]

\* df[selected_vars]: the chosen columns, in the order chosen.
SelectCols(t, sel) ==
  [dtype |-> [k \in 1..Len(sel) |-> t.dtype[sel[k]]],
   rows |-> [i \in 1..Len(t.rows) |-> [k \in 1..Len(sel) |-> t.rows[i][sel[k]]]]]

\* The choices of the variable dropdown, for a table of two columns.
Selections == {<<1>>, <<2>>, <<1, 2>>}

AllCols == <<1, 2>>

\* The file names a user uploads.
FileNames == {"data.csv", "data.xlsx", "data.txt"}

Supported(filename) == filename \in {"data.csv", "data.xlsx"}

\* ------------------------------------------------------ report generation
\* The browser sessions that click Generate Report; each holds its own table
\* in its own 'stored-data', and the report built from the table of session
\* p is written p.
Sessions == 1..MaxSessions

InitReport ==
  /\ now = 0
  /\ files = <<>>
  /\ job = [p \in Sessions |-> [pc |-> "idle", report_filename |-> "", report_bytes |-> 0]]
  /\ CleanIdle /\ StatsIdle /\ AppIdle /\ LabelIdle

\* The wall clock moves on by a second.
Tick ==
  /\ now < MaxClock
  /\ now' = now + 1
  /\ UNCHANGED <<files, job, cleanVars, statVars, appVars, labelVars>>

\* generate_report up to its call of generate_pdf_report: the session's table
\* is parsed and its analysis results are computed.
StartReport(p) ==
  /\ job[p].pc = "idle"
  /\ job' = [job EXCEPT ![p].pc = "analysed"]
  /\ UNCHANGED <<now, files, cleanVars, statVars, appVars, labelVars>>

\* strftime("%Y%m%d_%H%M%S") of the model's clock.
Timestamp(t) == CASE t = 0 -> "20240101_000000"
                  [] t = 1 -> "20240101_000001"
                  [] t = 2 -> "20240101_000002"
                  [] OTHER -> "20240101_000003"

\* generate_pdf_report, lines 56-63: the file name is made of the current
\* second and nothing else.
NameReport(p) ==
  /\ job[p].pc = "analysed"
  /\ job' = [job EXCEPT ![p].pc = "named", ![p].report_filename = Timestamp(now)]
  /\ UNCHANGED <<now, files, cleanVars, statVars, appVars, labelVars>>

\* generate_pdf_report, line 186: doc.build(story) writes the file, replacing
\* whatever is there under the name.
BuildReport(p) ==
  /\ job[p].pc = "named"
  /\ files' = (job[p].report_filename :> p) @@ files
  /\ job' = [job EXCEPT ![p].pc = "built"]
  /\ UNCHANGED <<now, cleanVars, statVars, appVars, labelVars>>

\* generate_report, lines 1710-1715: the file is opened by its name and its
\* bytes are sent to the session.
ReadReport(p) ==
  /\ job[p].pc = "built"
  /\ job' = [job EXCEPT ![p].pc = "sent", ![p].report_bytes = files[job[p].report_filename]]
  /\ UNCHANGED <<now, files, cleanVars, statVars, appVars, labelVars>>

NextReport ==
  \/ Tick
  \/ \E p \in Sessions : StartReport(p)
  \/ \E p \in Sessions : NameReport(p)
  \/ \E p \in Sessions : BuildReport(p)
  \/ \E p \in Sessions : ReadReport(p)

SpecReport == InitReport /\ [][NextReport]_vars

\* C19: interleaved report generations do not touch each other: the file a
\* run has written still holds its own report until the run has read it, and
\* the bytes a run sends are the report built from its own table.
C19_RunsIsolated ==
  \A p \in Sessions :
    /\ job[p].pc = "built" => files[job[p].report_filename] = p
    /\ job[p].pc = "sent" => job[p].report_bytes = p

\* --------------------------------------------------- interpret_correlation
\* A plausible slip: the boundaries taken with <= instead of <.
interpret_correlation_inclusive(c) ==
  LET a == IF IsNA(c) THEN c ELSE Num(Abs(c.n), c.d)
  IN IF ~FLess(Num(3, 10), a) /\ ~IsNA(a) THEN "weak correlation"
     ELSE IF ~FLess(Num(7, 10), a) /\ ~IsNA(a) THEN "moderate correlation"
     ELSE "strong correlation"

\* def interpret_correlation(corr)
interpret_correlation(c) ==
  LET a == IF IsNA(c) THEN c ELSE Num(Abs(c.n), c.d)
  IN IF FLess(a, Num(3, 10)) THEN "weak correlation"
     ELSE IF FLess(a, Num(7, 10)) THEN "moderate correlation"
     ELSE "strong correlation"

\* The coefficients passed: every fraction of [-1, 1] with a denominator up
\* to MaxDenominator, and NaN (the correlation with a constant column).
Coefficients ==
  {Num(x[1], x[2]) :
     x \in {y \in ((-MaxDenominator)..MaxDenominator) \X (1..MaxDenominator) :
               Abs(y[1]) <= y[2]}}
    \cup {NaN}

InitLabel ==
  /\ corr = NaN
  /\ label = ""
  /\ CleanIdle /\ StatsIdle /\ AppIdle /\ ReportIdle

InterpretCorrelation(c) ==
  /\ label = ""
  /\ corr' = c
  /\ label' = interpret_correlation(c)
  /\ UNCHANGED <<cleanVars, statVars, appVars, repVars>>

NextLabel == \E c \in Coefficients : InterpretCorrelation(c)

SpecLabel == InitLabel /\ [][NextLabel]_vars

\* C20: a coefficient r of [-1, 1] is labelled weak when |r| < 0.3, moderate
\* when 0.3 <= |r| < 0.7 and strong when |r| >= 0.7; so 0.3 and -0.3 are
\* moderate, 0.7 and -0.7 strong.
C20_LabelByAbsoluteValue ==
  (label # "" /\ ~IsNA(corr)) =>
    LET n == Abs(corr.n)
        d == corr.d
    IN /\ 10 * n < 3 * d => label = "weak correlation"
       /\ (3 * d <= 10 * n /\ 10 * n < 7 * d) => label = "moderate correlation"
       /\ 7 * d <= 10 * n => label = "strong correlation"
       /\ corr \in {Num(3, 10), Num(-3, 10)} => label = "moderate correlation"
       /\ corr \in {Num(7, 10), Num(-7, 10)} => label = "strong correlation"

\* The coefficient -0.3 has been labelled moderate.
C20_Witness == label = "moderate correlation" /\ corr = Num(-3, 10)

\* ------------------------------------------------------------ ErrorHandler
\* An exception: the name of its type and the text str() gives.
Exc(type, text) == [type |-> type, text |-> text]

\* A message shown to the user is a sequence of parts; a part is literal text
\* of the program, the text of an exception, or the name of its type.
Lit(x) == [src |-> "literal", s |-> x]

ExcText(e) == [src |-> "exception text", s |-> e.text]

\* The exception types _generate_user_message has a message for.
KnownErrors ==
  {"FileNotFoundError", "PermissionError", "ValueError", "KeyError", "TypeError",
   "IndexError", "ImportError", "MemoryError", "ZeroDivisionError", "AttributeError"}

\* error_messages[error_type]
FriendlyMessage(type) ==
  CASE type = "FileNotFoundError" -> "The file could not be found. Please check that the file exists and try again."
    [] type = "PermissionError" -> "Permission denied. Please check that you have the necessary permissions to access the file."
    [] type = "ValueError" -> "Invalid value provided. Please check your input and try again."
    [] type = "KeyError" -> "A required key was not found. This might be due to missing column names."
    [] type = "TypeError" -> "Type error occurred. This might be due to incompatible data types."
    [] type = "IndexError" -> "Index error occurred. This might be due to accessing non-existent data."
    [] type = "ImportError" -> "Failed to import a required module. Please check your installation."
    [] type = "MemoryError" -> "Not enough memory to complete the operation. Try with a smaller dataset."
    [] type = "ZeroDivisionError" -> "Division by zero occurred during calculation."
    [] type = "AttributeError" -> "Attribute error occurred. This might be due to accessing non-existent attributes."

\* _generate_user_message(error_type, error_message, context)
generate_user_message(e, context) ==
  LET user_message == IF e.type \in KnownErrors THEN <<Lit(FriendlyMessage(e.type))>>
                      ELSE <<Lit("An error occurred: "), ExcText(e)>>
  IN IF context # "" THEN <<Lit(context), Lit(": ")>> \o user_message
     ELSE user_message

\* ErrorHandler(): _setup_logging attaches one more FileHandler to the logger
\* that logging.getLogger('data_analyst_agent') shares among all instances.
setup_logging(lg) == [lg EXCEPT !.handlers = @ + 1]

\* handle_error: logger.error and logger.debug, each written by every handler
\* attached; the records of this call are counted.
log_error(lg) == [lg EXCEPT !.errors = lg.handlers, !.debugs = lg.handlers]

\* No handle_error in this call.
log_nothing(lg) == [lg EXCEPT !.errors = 0, !.debugs = 0]

\* ---------------------------------------------------------- process_upload
\* What the browser sends as 'contents': nothing, a string that is not a
\* base64 data URL (splitting or decoding it raises exc), a file that parses
\* to a frame, or a file on which read_csv / read_excel raises exc.
NoContents == [kind |-> "none", frame |-> NoFrame, exc |-> <<>>]

Garbled(e) == [kind |-> "garbled", frame |-> NoFrame, exc |-> e]

File(t) == [kind |-> "file", frame |-> t, exc |-> <<>>]

Broken(e) == [kind |-> "broken", frame |-> NoFrame, exc |-> e]

\* contents.split(',') and base64.b64decode raising.
DecodeErrors ==
  {Exc("ValueError", "not enough values to unpack (expected 2, got 1)"),
   Exc("Error", "Incorrect padding")}

\* read_csv and read_excel raising.
ReadErrors ==
  {Exc("UnicodeDecodeError", "'utf-8' codec can't decode byte 0x89 in position 0: invalid start byte"),
   Exc("ParserError", "Error tokenizing data. C error: Expected 1 fields in line 3, saw 2"),
   Exc("EmptyDataError", "No columns to parse from file"),
   Exc("ValueError", "Excel file format cannot be determined, you must specify an engine manually."),
   Exc("ImportError", "Missing optional dependency 'openpyxl'.")}

\* The five outputs of the callback.
Outputs(data, status, shown) ==
  [stored |-> data, status |-> status,
   metrics |-> IF shown THEN "block" ELSE "none",
   analysis |-> IF shown THEN "block" ELSE "none",
   features |-> IF shown THEN "none" ELSE "block"]

Alert(color, parts) == [color |-> color, parts |-> parts]

\* A plausible slip: the sections left shown when the file type is refused.
process_upload_keep_shown(contents, filename) ==
  IF contents.kind = "none" THEN Outputs(<<>>, NoAlert, FALSE)
  ELSE IF contents.kind = "garbled"
  THEN Outputs(<<>>, Alert("danger", <<Lit("Error processing file: "), ExcText(contents.exc)>>), FALSE)
  ELSE IF ~Supported(filename)
  THEN Outputs(<<>>, Alert("danger", <<Lit("Unsupported file type. Please upload CSV or Excel file.")>>), TRUE)
  ELSE IF contents.kind = "broken"
  THEN Outputs(<<>>, Alert("", generate_user_message(contents.exc, "Error processing file")), FALSE)
  ELSE Outputs(to_json(contents.frame),
               Alert("success",
                     <<Lit("Successfully loaded "), Lit(filename), Lit(" with "),
                       Lit(ToString(Len(contents.frame.rows))), Lit(" rows and "),
                       Lit(ToString(NCols(contents.frame))), Lit(" columns.")>>),
               TRUE)

\* process_upload(contents, filename): what it returns.
process_upload(contents, filename) ==
  IF contents.kind = "none" THEN Outputs(<<>>, NoAlert, FALSE)
  ELSE IF contents.kind = "garbled"
  THEN Outputs(<<>>, Alert("danger", <<Lit("Error processing file: "), ExcText(contents.exc)>>), FALSE)
  ELSE IF ~Supported(filename)
  THEN Outputs(<<>>, Alert("danger", <<Lit("Unsupported file type. Please upload CSV or Excel file.")>>), FALSE)
  ELSE IF contents.kind = "broken"
  THEN Outputs(<<>>, Alert("", generate_user_message(contents.exc, "Error processing file")), FALSE)
  ELSE Outputs(to_json(contents.frame),
               Alert("success",
                     <<Lit("Successfully loaded "), Lit(filename), Lit(" with "),
                       Lit(ToString(Len(contents.frame.rows))), Lit(" rows and "),
                       Lit(ToString(NCols(contents.frame))), Lit(" columns.")>>),
               TRUE)

\* process_upload, lines 943-945 and 981-982: what it does to the logger.
upload_logging(contents, filename, lg) ==
  IF contents.kind = "none" THEN lg
  ELSE IF contents.kind = "broken" /\ Supported(filename)
  THEN log_error(setup_logging(lg))
  ELSE log_nothing(setup_logging(lg))

\* The value F gives for v, v being computed once (an assignment
\* 'x = v' followed by uses of x).
Assigned(v, F(_)) == CHOOSE r \in {F(x) : x \in {v}} : TRUE

\* ---------------------------------------------------------- update_insights
\* The members of a set of columns, in column order.
ColSeq(S) == [i \in 1..Cardinality(S) |-> NthOf(S, i)]

\* df[col].isna().sum()
missing_count(col) == Len(col) - NotNaCount(col)

\* df[col].nunique(): the distinct observed values.
nunique(col) == Cardinality(Observed(col))

\* A card of the insights tab, or a section of the report: a title and items.
Card(title, items) == [title |-> title, items |-> items]

\* "Dataset Overview": records, variables, numeric and categorical variables.
OverviewCard(t) ==
  Card("Dataset Overview",
       <<Len(t.rows), NCols(t), Cardinality(numeric_cols(t)),
         Cardinality(categorical_cols(t))>>)

\* missing_cols = missing_data[missing_data > 0]
missing_cols(t) == {c \in Cols(t) : missing_count(Column(t, c)) > 0}

\* "Missing Data": per column with missing values its count and, to two
\* decimals, its percentage of the rows.
MissingCard(t) ==
  Card("Missing Data",
       [i \in 1..Cardinality(missing_cols(t)) |->
          LET c == ColSeq(missing_cols(t))[i]
              n == missing_count(Column(t, c))
          IN [col |-> c, count |-> n, pct |-> Round2(Num(n * 100, Len(t.rows)))]])

\* One entry of numeric_df.corr(), not rounded: the sign of r and its square,
\* or undefined (NaN).
Undefined == [defined |-> FALSE, sg |-> 0, q |-> Num(0, 1)]

pearson_exact(x, y) ==
  LET S == Both(x, y)
      xs == Restrict(x, S)
      ys == Restrict(y, S)
      mx == series_mean(xs)
      my == series_mean(ys)
      sxy == SumCoDev(xs, mx, ys, my, 1)
      sxx == SumSqDev(xs, mx, 1)
      syy == SumSqDev(ys, my, 1)
  IN IF S = {} \/ sxx.n = 0 \/ syy.n = 0 THEN Undefined
     ELSE [defined |-> TRUE,
           sg |-> IF sxy.n < 0 THEN -1 ELSE IF sxy.n = 0 THEN 0 ELSE 1,
           q |-> FMul(FMul(sxy, Num(sxx.d, sxx.n)), FMul(sxy, Num(syy.d, syy.n)))]

\* The hundredths of the square root of q, for 0 <= q <= 1, cut off: the
\* count of the k >= 1 with k <= 100 * sqrt(q).
TruncSqrt2(q) == Cardinality({k \in 1..100 : k * k * q.d <= 10000 * q.n})

\* f"{r:.2f}": r to two decimals.
Format2(r) ==
  IF ~r.defined THEN NaN ELSE Num(r.sg * RoundSqrt2(r.q), 100)

\* r as interpret_correlation receives it.  The thresholds 0.3 and 0.7 are
\* whole hundredths, so r cut off to hundredths falls on the same side of
\* them as r itself.
AsFloat(r) ==
  IF ~r.defined THEN NaN ELSE Num(r.sg * TruncSqrt2(r.q), 100)

\* corr_pairs: the pairs (i, j), i < j, of numeric columns with their
\* coefficient, row by row of the matrix.
corr_pairs(t) ==
  LET cs == ColSeq(numeric_cols(t))
      n == Len(cs)
      ps == {p \in (1..n) \X (1..n) : p[1] < p[2]}
      rank(p) == Cardinality({o \in ps : o[1] < p[1] \/ (o[1] = p[1] /\ o[2] < p[2])}) + 1
  IN [k \in 1..Cardinality(ps) |->
        LET p == CHOOSE o \in ps : rank(o) = k
        IN [a |-> cs[p[1]], b |-> cs[p[2]],
            r |-> pearson_exact(Column(t, cs[p[1]]), Column(t, cs[p[2]]))]]

\* abs(x[2]) of one pair is greater than that of another; False with NaN.
AbsGreater(x, y) ==
  x.r.defined /\ y.r.defined /\ FLess(y.r.q, x.r.q)

RECURSIVE InsertDesc(_, _)
\* x put into the descending sequence s, after the entries not smaller.
InsertDesc(s, x) ==
  IF s = <<>> THEN <<x>>
  ELSE IF AbsGreater(x, Head(s)) THEN <<x>> \o s
  ELSE <<Head(s)>> \o InsertDesc(Tail(s), x)

RECURSIVE SortDesc(_, _)
\* corr_pairs.sort(key=lambda x: abs(x[2]), reverse=True): stable.
SortDesc(s, n) ==
  IF n = 0 THEN <<>>
  ELSE InsertDesc(SortDesc(s, n - 1), s[n])

\* corr_pairs[:5]
Top5(s) == SubSeq(s, 1, IF Len(s) < 5 THEN Len(s) ELSE 5)

\* "Correlation Analysis": the five pairs of greatest absolute correlation,
\* each with its coefficient to two decimals and its label.
CorrelationCard(t) ==
  LET pairs == corr_pairs(t)
      top == Top5(SortDesc(pairs, Len(pairs)))
  IN Card("Correlation Analysis",
          [k \in 1..Len(top) |->
             [a |-> top[k].a, b |-> top[k].b, shown |-> Format2(top[k].r),
              label |-> interpret_correlation(AsFloat(top[k].r))]])

\* A plausible slip: the fences of the inline test taken at 3 * iqr.
inline_outlier_count_wide(col) ==
  LET q1 == quantile(col, 1)
      q3 == quantile(col, 3)
      iqr == FSub(q3, q1)
      lower_bound == FSub(q1, FMul(Num(3, 1), iqr))
      upper_bound == FAdd(q3, FMul(Num(3, 1), iqr))
  IN Cardinality({i \in 1..Len(col) :
                    FLess(col[i], lower_bound) \/ FLess(upper_bound, col[i])})

\* Lines 1475-1481 (and 1663-1669): the IQR test written out in the callback;
\* len(outliers).
inline_outlier_count(col) ==
  LET q1 == quantile(col, 1)
      q3 == quantile(col, 3)
      iqr == FSub(q3, q1)
      lower_bound == FSub(q1, FMul(Num(3, 2), iqr))
      upper_bound == FAdd(q3, FMul(Num(3, 2), iqr))
  IN Cardinality({i \in 1..Len(col) :
                    FLess(col[i], lower_bound) \/ FLess(upper_bound, col[i])})

\* outlier_cols: the numeric columns with outliers, each with its count.
outlier_cols(t) ==
  LET cs == {c \in numeric_cols(t) : inline_outlier_count(Column(t, c)) > 0}
  IN [i \in 1..Cardinality(cs) |->
        [col |-> ColSeq(cs)[i], count |-> inline_outlier_count(Column(t, ColSeq(cs)[i]))]]

\* A plausible slip: the test written >= 20.
IsHighCardinalityInclusive(col) == nunique(col) >= 20

\* df[col].nunique() > 20
IsHighCardinality(col) == nunique(col) > 20

\* high_card_cols: the categorical columns of more than 20 distinct values,
\* each with its number of distinct values.
high_card_cols(t) ==
  LET cs == {c \in categorical_cols(t) : IsHighCardinality(Column(t, c))}
  IN [i \in 1..Cardinality(cs) |->
        [col |-> ColSeq(cs)[i], count |-> nunique(Column(t, ColSeq(cs)[i]))]]

\* df.isna().sum().sum()
total_missing(t) == Cardinality({p \in (1..Len(t.rows)) \X Cols(t) : IsNA(t.rows[p[1]][p[2]])})

Rec(kind, cols) == [kind |-> kind, cols |-> cols]

\* A plausible slip: the missing-values recommendation always given.
missing_recommendation_always(t) == <<Rec("missing values", <<>>)>>

\* Lines 1467-1470 (and 1653-1656): the missing-values recommendation.
missing_recommendation(t) ==
  IF total_missing(t) > 0 THEN <<Rec("missing values", <<>>)>> ELSE <<>>

\* A plausible slip: the high-cardinality recommendation put before the
\* outlier recommendation.
recommendations_reordered(t) ==
  missing_recommendation(t)
    \o Assigned(high_card_cols(t),
                LAMBDA cols : IF cols # <<>> THEN <<Rec("high cardinality", cols)>> ELSE <<>>)
    \o Assigned(outlier_cols(t),
                LAMBDA cols : IF cols # <<>> THEN <<Rec("outliers", cols)>> ELSE <<>>)

\* The recommendations, as update_insights and generate_report both compute
\* them: missing values, outliers, high cardinality.
recommendations(t) ==
  missing_recommendation(t)
    \o Assigned(outlier_cols(t),
                LAMBDA cols : IF cols # <<>> THEN <<Rec("outliers", cols)>> ELSE <<>>)
    \o Assigned(high_card_cols(t),
                LAMBDA cols : IF cols # <<>> THEN <<Rec("high cardinality", cols)>> ELSE <<>>)

\* update_insights(data), data not None: the cards returned.
update_insights(t) ==
  <<OverviewCard(t)>>
    \o (IF missing_cols(t) # {} THEN <<MissingCard(t)>> ELSE <<>>)
    \o (IF Cardinality(numeric_cols(t)) > 1 THEN <<CorrelationCard(t)>> ELSE <<>>)
    \o Assigned(recommendations(t),
                LAMBDA recs : IF recs # <<>> THEN <<Card("Recommendations", recs)>> ELSE <<>>)

\* ---------------------------------------------------------- generate_report
FAbs(c) == IF IsNA(c) THEN c ELSE Num(Abs(c.n), c.d)

\* outliers.sum() over the numeric columns, identify_outliers with its
\* default method 'iqr'.
outlier_count(t) ==
  LET flagged(c) == LET f == identify_outliers(t, c, "iqr").flags
                    IN {i \in 1..Len(t.rows) : f[i]}
  IN Cardinality(UNION {{<<c, i>> : i \in flagged(c)} : c \in numeric_cols(t)})

\* The pair 'N/A' of the initial strongest_corr.
NA == <<>>

RECURSIVE StrongestFrom(_, _, _, _)
\* The loop of lines 1641-1646 from pair number k on: a pair replaces the
\* strongest so far when its absolute value is strictly greater.
StrongestFrom(m, pairs, k, best) ==
  IF k > Len(pairs) THEN best
  ELSE LET v == m[<<pairs[k].a, pairs[k].b>>]
       IN IF FLess(FAbs(best.value), FAbs(v))
          THEN StrongestFrom(m, pairs, k + 1,
                             [present |-> TRUE, pair |-> <<pairs[k].a, pairs[k].b>>, value |-> v])
          ELSE StrongestFrom(m, pairs, k + 1, best)

\* analysis_results['strongest_correlation']: set only when the matrix of
\* calculate_correlation_matrix is not empty.
strongest_correlation(t) ==
  LET m == calculate_correlation_matrix(t).cells
  IN IF m = <<>> THEN [present |-> FALSE, pair |-> NA, value |-> Num(0, 1)]
     ELSE StrongestFrom(m, corr_pairs(t), 1,
                        [present |-> TRUE, pair |-> NA, value |-> Num(0, 1)])

\* Lines 1697-1703: the pattern made of the strongest correlation.
patterns(strongest) ==
  IF strongest.present /\ strongest.pair # NA
  THEN <<[text |-> "Strong correlation between", pair |-> strongest.pair,
          value |-> Round2(strongest.value)]>>
  ELSE <<>>

\* analysis_results as generate_report builds it.
analysis_results(t) ==
  Assigned(strongest_correlation(t), LAMBDA strongest :
    [numeric_columns |-> ColSeq(numeric_cols(t)),
     categorical_columns |-> ColSeq(categorical_cols(t)),
     missing_percentage |-> Round2(Num(total_missing(t) * 100, Len(t.rows) * NCols(t))),
     descriptive_stats |-> get_numerical_statistics(t).cells,
     outlier_count |-> outlier_count(t),
     strongest_correlation |-> strongest,
     patterns |-> patterns(strongest),
     recommendations |-> recommendations(t)])

\* ------------------------------------------------------ generate_pdf_report
Line(name, val) == [name |-> name, val |-> val]

\* Lines 73-86: the paragraphs of the Executive Summary.
ExecutiveSummary(t, ar) ==
  Card("Executive Summary",
       <<Line("records", Len(t.rows)), Line("variables", NCols(t)),
         Line("Missing values", ar.missing_percentage),
         Line("Numeric columns", Len(ar.numeric_columns)),
         Line("Categorical columns", Len(ar.categorical_columns)),
         Line("Outliers detected", ar.outlier_count)>>
         \o (IF ar.strongest_correlation.present /\ ar.strongest_correlation.pair # NA
             THEN <<Line("Strongest correlation",
                         <<ar.strongest_correlation.pair,
                           Round2(ar.strongest_correlation.value)>>)>>
             ELSE <<>>))

\* The first three numeric columns: one distribution chart each.
ChartColumns(ar) ==
  SubSeq(ar.numeric_columns, 1,
         IF Len(ar.numeric_columns) < 3 THEN Len(ar.numeric_columns) ELSE 3)

Chart(kind, col) == Card("chart", <<kind, col>>)

\* The parts of the story that are built by a library call that can fail: the
\* statistics table, the distribution charts, the heatmap; in story order.
Fallible(t, ar) ==
  (IF ar.descriptive_stats # <<>> THEN <<Card("Descriptive Statistics", <<>>)>> ELSE <<>>)
    \o [i \in 1..Len(ChartColumns(ar)) |-> Chart("Distribution", ChartColumns(ar)[i])]
    \o (IF Len(ar.numeric_columns) >= 2 THEN <<Chart("Correlation Heatmap", 0)>> ELSE <<>>)

\* The story of lines 69-183, in order.
Story(t, ar) ==
  <<Card("Data Analysis Report", <<>>), ExecutiveSummary(t, ar), Card("Data Overview", <<>>)>>
    \o (IF ar.descriptive_stats # <<>> THEN <<Card("Descriptive Statistics", <<>>)>> ELSE <<>>)
    \o <<Card("Data Visualizations", <<>>)>>
    \o [i \in 1..Len(ChartColumns(ar)) |-> Chart("Distribution", ChartColumns(ar)[i])]
    \o (IF Len(ar.numeric_columns) >= 2 THEN <<Chart("Correlation Heatmap", 0)>> ELSE <<>>)
    \o <<Card("Insights & Recommendations", <<>>)>>
    \o (IF ar.patterns # <<>> THEN <<Card("Identified Patterns:", ar.patterns)>> ELSE <<>>)
    \o (IF ar.recommendations # <<>> THEN <<Card("Recommendations:", ar.recommendations)>> ELSE <<>>)

\* generate_pdf_report(df, analysis_results) when building the parts in
\* failing raises: nothing around the table and the charts catches, so the
\* first failure leaves the function before doc.build; otherwise the story is
\* built into the document.
generate_pdf_report(t, ar, failing) ==
  IF \E part \in failing : \E i \in 1..Len(Fallible(t, ar)) : Fallible(t, ar)[i] = part
  THEN [raised |-> TRUE, story |-> <<>>]
  ELSE [raised |-> FALSE, story |-> Story(t, ar)]

\* generate_report, lines 1705-1719: the bytes of the built document are
\* returned for download; any exception is printed and None is returned.
generate_report(t, failing) ==
  Assigned(analysis_results(t), LAMBDA ar :
    Assigned(generate_pdf_report(t, ar, failing), LAMBDA pdf :
      [results |-> ar, failing |-> failing,
       returned |-> IF pdf.raised THEN "None" ELSE "bytes",
       story |-> pdf.story]))

\* ------------------------------------------------- the dashboard's inputs
\* Two numeric columns and a text column of n rows: the first hi rows hold 2
\* in both numeric columns and the others 1, with gap the first cell is
\* missing; the text column cycles through k distinct values.
InsightTable(n, k, hi, gap) ==
  [dtype |-> <<"number", "number", "object">>,
   rows |-> [i \in 1..n |->
               <<IF gap /\ i = 1 THEN NaN ELSE IF i <= hi THEN Num(2, 1) ELSE Num(1, 1),
                 IF i <= hi THEN Num(2, 1) ELSE Num(1, 1),
                 Str("c" \o ToString(((i - 1) % k) + 1))>>]]

\* The row counts of these tables: few rows, and rows enough for 21 distinct
\* values.
InsightSizes == {1, 3, 21, MaxInsightRows}

InsightTables ==
  {InsightTable(n, k, hi, gap) :
     n \in InsightSizes, k \in {1, 20, 21}, hi \in 0..2, gap \in BOOLEAN}

\* One text column of n rows cycling through k distinct values; with gap the
\* first cell is missing.
CardTable(n, k, gap) ==
  [dtype |-> <<"object">>,
   rows |-> [i \in 1..n |->
               <<IF gap /\ i = 1 THEN NaN ELSE Str("c" \o ToString(((i - 1) % k) + 1))>>]]

CardTables ==
  {CardTable(n, k, gap) :
     n \in {20, 21, 25, MaxCardRows}, k \in {19, 20, 21, 25}, gap \in BOOLEAN}

\* Two numeric columns of three rows: correlations strong, weak, zero,
\* negative and undefined.
PairTables ==
  {[dtype |-> <<"number", "number">>, rows |-> rs] :
     rs \in [1..3 -> {<<Num(1, 1), Num(1, 1)>>, <<Num(2, 1), Num(3, 1)>>,
                      <<Num(3, 1), Num(1, 1)>>, <<Num(3, 1), Num(2, 1)>>,
                      <<NaN, Num(2, 1)>>}]}

\* One numeric column: 1, 2, 3, 4 and a last value near or far.
SpreadTables ==
  {[dtype |-> <<"number">>,
    rows |-> <<(<<Num(1, 1)>>), (<<Num(2, 1)>>), (<<Num(3, 1)>>), (<<Num(4, 1)>>), (<<x>>)>>] :
     x \in {Num(5, 1), Num(8, 1), Num(100, 1), NaN}}

\* The tables uploaded before the insights and the report are asked for.
InsightUploads ==
  TextTables \cup PairTables \cup SpreadTables \cup InsightTables \cup CardTables

\* What arrives in 'contents': nothing, a string that does not decode, a file
\* that reads into a frame, a file the reader refuses.
UploadContents ==
  {NoContents} \cup {Garbled(e) : e \in DecodeErrors}
    \cup {File(t) : t \in TextTables} \cup {Broken(e) : e \in ReadErrors}

\* The library calls of generate_pdf_report that raise in one run: none, or
\* one of the table, the charts and the heatmap.
Failures(t) ==
  Assigned(analysis_results(t), LAMBDA ar :
    Assigned(Fallible(t, ar), LAMBDA parts :
      {{}} \cup {{parts[i]} : i \in 1..Len(parts)}))

\* ------------------------------------------- the dashboard's state machine
InitApp ==
  /\ uploaded = NoFrame
  /\ stored = <<>>
  /\ analysed = <<>>
  /\ view = ""
  /\ ui = NoUi
  /\ insights = <<>>
  /\ report = <<>>
  /\ logger = NoLogger
  /\ CleanIdle /\ StatsIdle /\ ReportIdle /\ LabelIdle

\* process_upload: the frame read from the file goes to 'stored-data' as
\* JSON, the status and the three section styles are set, and the
\* ErrorHandler made for the call adds its handler to the shared logger.
ProcessUpload(contents, filename) ==
  /\ uploaded' = contents.frame
  /\ \E out \in {process_upload(contents, filename)} :
       /\ stored' = out.stored
       /\ ui' = [status |-> out.status, metrics |-> out.metrics,
                 analysis |-> out.analysis, features |-> out.features]
  /\ logger' = upload_logging(contents, filename, logger)
  /\ UNCHANGED <<analysed, view, insights, report, cleanVars, statVars, repVars, labelVars>>

\* update_stats_content: the analyser runs on the selected columns of the
\* frame parsed from 'stored-data'.
UpdateStatsContent(sel) ==
  /\ stored # <<>>
  /\ analysed' = SelectCols(read_json(stored), sel)
  /\ view' = <<"update_stats_content", sel>>
  /\ UNCHANGED <<uploaded, stored, ui, insights, report, logger,
                 cleanVars, statVars, repVars, labelVars>>

\* update_insights: the insights are computed on the frame parsed from
\* 'stored-data'.
UpdateInsights ==
  /\ stored # <<>>
  /\ \E t \in {read_json(stored)} :
       /\ analysed' = t
       /\ insights' = update_insights(t)
  /\ view' = <<"update_insights", AllCols>>
  /\ UNCHANGED <<uploaded, stored, ui, report, logger,
                 cleanVars, statVars, repVars, labelVars>>

\* generate_report: the report is computed on the frame parsed from
\* 'stored-data'.
GenerateReport(failing) ==
  /\ stored # <<>>
  /\ \E t \in {read_json(stored)} :
       /\ analysed' = t
       /\ report' = generate_report(t, failing)
  /\ view' = <<"generate_report", AllCols>>
  /\ UNCHANGED <<uploaded, stored, ui, insights, logger,
                 cleanVars, statVars, repVars, labelVars>>

\* One upload of a table of a number and a text column, then the analyses:
\* the statistics for any selection, the insights once for the data stored,
\* the report on one click.
NextApp ==
  \/ \E t \in MixedTables, filename \in FileNames :
       uploaded = NoFrame /\ ProcessUpload(File(t), filename)
  \/ \E sel \in Selections : UpdateStatsContent(sel)
  \/ insights = <<>> /\ UpdateInsights
  \/ stored # <<>> /\ report = <<>>
       /\ \E failing \in Failures(read_json(stored)) : GenerateReport(failing)

SpecApp == InitApp /\ [][NextApp]_vars

\* One upload of any table; the insights callback fires once for the data
\* stored, and the report button is clicked once.
NextInsights ==
  \/ \E t \in InsightUploads :
       uploaded = NoFrame /\ ProcessUpload(File(t), "data.csv")
  \/ insights = <<>> /\ UpdateInsights
  \/ stored # <<>> /\ report = <<>>
       /\ \E failing \in Failures(read_json(stored)) : GenerateReport(failing)

SpecInsights == InitApp /\ [][NextInsights]_vars

\* Uploads one after another, of every kind of contents.
NextUpload ==
  \E contents \in UploadContents, filename \in FileNames :
    logger.handlers < MaxUploads /\ ProcessUpload(contents, filename)

SpecUpload == InitApp /\ [][NextUpload]_vars

\* The frames process_data can return for the uploaded table.
CleanedUploads ==
  {r.heap[r.ret] :
     r \in {x \in {process_data(<<uploaded>>, 1, exc) :
                     exc \in SUBSET categorical_cols(uploaded)} : ~x.raised}}

\* C18: every statistics, insight and report computation triggered from an
\* uploaded table that process_data can clean works on the table process_data
\* returns for it (on the selected columns of that table), not on the raw one.
C18_AnalysesUseCleanedTable ==
  (analysed # <<>> /\ CleanedUploads # {})
    => \E t \in CleanedUploads : analysed = SelectCols(t, view[2])

\* ------------------------------------------------ the insights, claim by claim
\* The table update_insights was given.
Given == read_json(stored)

\* The cards of the insights tab with a title.
CardsTitled(title) == {i \in 1..Len(insights) : insights[i].title = title}

\* The recommendations of a kind on the insights tab.
Recommended(kind) ==
  {r \in UNION {{insights[i].items[k] : k \in 1..Len(insights[i].items)} :
                  i \in CardsTitled("Recommendations")} : r.kind = kind}

\* The missing cells of a column of the table given.
MissingCells(c) == {i \in 1..Len(Given.rows) : IsNA(Given.rows[i][c])}

ColumnsWithMissing == {c \in Cols(Given) : MissingCells(c) # {}}

\* C21: the missing-data finding and the imputation/removal recommendation
\* are on the insights tab exactly when the table has a missing cell; the
\* finding lists exactly the columns with missing cells, in column order, each
\* with its count and its percentage of the rows to two decimals.
C21_MissingFinding ==
  insights # <<>> =>
    /\ (CardsTitled("Missing Data") # {}) = (ColumnsWithMissing # {})
    /\ (Recommended("missing values") # {}) = (ColumnsWithMissing # {})
    /\ \A i \in CardsTitled("Missing Data") :
         /\ Len(insights[i].items) = Cardinality(ColumnsWithMissing)
         /\ \A k \in 1..Len(insights[i].items) :
              LET item == insights[i].items[k]
              IN /\ item.col \in ColumnsWithMissing
                 /\ Cardinality({c \in ColumnsWithMissing : c < item.col}) = k - 1
                 /\ item.count = Cardinality(MissingCells(item.col))
                 /\ item.pct = Round2(Num(Cardinality(MissingCells(item.col)) * 100,
                                         Len(Given.rows)))

\* A finding on one column of three, one missing cell of three rows (33.33%).
C21_Witness ==
  /\ insights # <<>>
  /\ NCols(Given) = 3 /\ Len(Given.rows) = 3
  /\ \E i \in CardsTitled("Missing Data") :
       /\ Len(insights[i].items) = 1
       /\ insights[i].items[1].pct = Num(3333, 100)
  /\ Recommended("missing values") # {}

\* The distinct observed values of a column of the table given.
DistinctValues(c) ==
  {Given.rows[i][c] : i \in (1..Len(Given.rows)) \ MissingCells(c)}

\* The categorical columns of more than 20 distinct values.
ManyValued ==
  {c \in Cols(Given) : Given.dtype[c] # "number" /\ Cardinality(DistinctValues(c)) > 20}

\* The recommendations of a kind in the report.
Reported(kind) ==
  {r \in {report.results.recommendations[k] :
            k \in 1..Len(report.results.recommendations)} : r.kind = kind}

\* A high-cardinality recommendation names exactly the many-valued columns,
\* in column order, each with its number of distinct values.
NamesManyValued(r) ==
  /\ Len(r.cols) = Cardinality(ManyValued)
  /\ \A k \in 1..Len(r.cols) :
       /\ r.cols[k].col \in ManyValued
       /\ Cardinality({c \in ManyValued : c < r.cols[k].col}) = k - 1
       /\ r.cols[k].count = Cardinality(DistinctValues(r.cols[k].col))

\* C22: the high-cardinality recommendation is given, on the insights tab and
\* in the report, exactly when some categorical column has more than 20
\* distinct values, and it names exactly those columns with their counts of
\* distinct values (25 distinct values are named, exactly 20 are not).
C22_HighCardinality ==
  /\ insights # <<>> =>
       /\ (Recommended("high cardinality") # {}) = (ManyValued # {})
       /\ \A r \in Recommended("high cardinality") : NamesManyValued(r)
  /\ report # <<>> =>
       /\ (Reported("high cardinality") # {}) = (ManyValued # {})
       /\ \A r \in Reported("high cardinality") : NamesManyValued(r)

\* A column of 25 distinct values in 30 rows, named with the count 25.
C22_Witness ==
  /\ insights # <<>>
  /\ Len(Given.rows) = 30
  /\ Cardinality(DistinctValues(1)) = 25
  /\ \E r \in Recommended("high cardinality") :
       Len(r.cols) = 1 /\ r.cols[1].col = 1 /\ r.cols[1].count = 25

\* The rows identify_outliers(table, column, 'iqr') flags.
Flagged(c) ==
  LET flags == identify_outliers(Given, c, "iqr").flags
  IN {i \in 1..Len(Given.rows) : flags[i]}

\* The numeric columns with a row flagged.
WithOutliers == {c \in numeric_cols(Given) : Flagged(c) # {}}

\* An outlier recommendation lists exactly the columns with outliers, in
\* column order, each with the number of rows flagged.
ListsOutliers(r) ==
  /\ Len(r.cols) = Cardinality(WithOutliers)
  /\ \A k \in 1..Len(r.cols) :
       /\ r.cols[k].col \in WithOutliers
       /\ Cardinality({c \in WithOutliers : c < r.cols[k].col}) = k - 1
       /\ r.cols[k].count = Cardinality(Flagged(r.cols[k].col))

\* C23: the outlier recommendation is given, on the insights tab and in the
\* report, exactly when identify_outliers with method 'iqr' flags a row of
\* some numeric column, and it lists exactly those columns, each with the
\* number of rows identify_outliers flags for it.
C23_OutlierRecommendation ==
  /\ insights # <<>> =>
       /\ (Recommended("outliers") # {}) = (WithOutliers # {})
       /\ \A r \in Recommended("outliers") : ListsOutliers(r)
  /\ report # <<>> =>
       /\ (Reported("outliers") # {}) = (WithOutliers # {})
       /\ \A r \in Reported("outliers") : ListsOutliers(r)

\* Two numeric columns with two outliers each, listed with the count 2.
C23_Witness ==
  /\ report # <<>>
  /\ \E r \in Reported("outliers") :
       /\ Len(r.cols) = 2
       /\ r.cols[1].count = 2 /\ r.cols[2].count = 2
       /\ Cardinality(Flagged(2)) = 2

\* The condition under which a card belongs on the insights tab.
Triggered(title) ==
  CASE title = "Dataset Overview" -> TRUE
    [] title = "Missing Data" -> ColumnsWithMissing # {}
    [] title = "Correlation Analysis" -> Cardinality(numeric_cols(Given)) > 1
    [] title = "Recommendations" ->
         ColumnsWithMissing # {} \/ WithOutliers # {} \/ ManyValued # {}

\* The condition under which a recommendation belongs in the block.
Due(kind) ==
  CASE kind = "missing values" -> ColumnsWithMissing # {}
    [] kind = "outliers" -> WithOutliers # {}
    [] kind = "high cardinality" -> ManyValued # {}

\* C24: the insights tab shows, in this order, the overview, the missing-data
\* finding, the correlation finding and the recommendations, each only when
\* its condition holds and none as an empty placeholder; the recommendations
\* are, in this order, missing values, outliers and high cardinality, each
\* only when due.
C24_InsightOrder ==
  insights # <<>> =>
    /\ [i \in 1..Len(insights) |-> insights[i].title]
         = SelectSeq(<<"Dataset Overview", "Missing Data", "Correlation Analysis",
                       "Recommendations">>, Triggered)
    /\ \A i \in 1..Len(insights) : insights[i].items # <<>>
    /\ \A i \in CardsTitled("Recommendations") :
         [k \in 1..Len(insights[i].items) |-> insights[i].items[k].kind]
           = SelectSeq(<<"missing values", "outliers", "high cardinality">>, Due)

\* All four cards and all three recommendations at once.
C24_Witness ==
  /\ Len(insights) = 4
  /\ \E i \in CardsTitled("Recommendations") : Len(insights[i].items) = 3

\* ------------------------------------------------- the report, claim by claim
\* The lines of the Executive Summary of the report delivered.
SummaryLines ==
  UNION {{report.story[i].items[k] : k \in 1..Len(report.story[i].items)} :
           i \in {j \in 1..Len(report.story) : report.story[j].title = "Executive Summary"}}

\* The pairs of numeric columns of the table given whose correlation is
\* defined, with the coefficient rounded as the report computes it.
DefinedPairs ==
  {p \in numeric_cols(Given) \X numeric_cols(Given) :
     p[1] < p[2] /\ ~IsNA(pearson(Column(Given, p[1]), Column(Given, p[2])))}

Coefficient(p) == pearson(Column(Given, p[1]), Column(Given, p[2]))

\* C25: the Executive Summary of a delivered report carries one
\* strongest-correlation entry: a pair of numeric columns of greatest absolute
\* correlation with its value when some pair has a defined correlation, and
\* "N/A" otherwise.
C25_StrongestCorrelationEntry ==
  (report # <<>> /\ report.returned = "bytes") =>
    \E line \in SummaryLines :
      /\ line.name = "Strongest correlation"
      /\ IF DefinedPairs = {} THEN line.val[1] = NA
         ELSE /\ line.val[1] \in DefinedPairs
              /\ line.val[2] = Coefficient(line.val[1])
              /\ \A p \in DefinedPairs :
                   ~FLess(FAbs(Coefficient(line.val[1])), FAbs(Coefficient(p)))

\* The sections of a story.
Sections(story) == {story[i] : i \in 1..Len(story)}

\* C26: when building a chart or the statistics table fails, the caller still
\* receives a report, and the document holds every section of the full story
\* but the failing one.
C26_FailureOmitsOnlyThatPart ==
  report # <<>> =>
    /\ report.returned = "bytes"
    /\ Sections(report.story)
         = Sections(generate_report(Given, {}).story) \ report.failing

\* C30: generate_report adds the pattern "Strong correlation between <pair>"
\* only for a strongest pair whose absolute correlation is at least 0.7, the
\* value from which interpret_correlation answers 'strong correlation'.
C30_StrongPatternFromSevenTenths ==
  report # <<>> =>
    \A k \in 1..Len(report.results.patterns) :
      /\ ~FLess(FAbs(report.results.strongest_correlation.value), Num(7, 10))
      /\ interpret_correlation(report.results.strongest_correlation.value)
           = "strong correlation"

\* ------------------------------------------------ the uploads, claim by claim
\* The status shown is an error message.
ErrorShown == ui.status.parts # <<>> /\ ui.status.color # "success"

\* C27: an error message shown to the user is made of the program's own
\* wording only: no part of it is the text or the type name of the exception
\* caught.
C27_NoExceptionTextShown ==
  ErrorShown =>
    \A k \in 1..Len(ui.status.parts) : ui.status.parts[k].src = "literal"

\* The sections shown and data stored, or the sections hidden and none stored.
DataShown ==
  /\ stored # <<>>
  /\ ui.metrics = "block" /\ ui.analysis = "block" /\ ui.features = "none"

NothingShown ==
  /\ stored = <<>>
  /\ ui.metrics = "none" /\ ui.analysis = "none" /\ ui.features = "block"

\* An upload that is not a successful parse stores nothing, whatever was
\* stored before.
FailedUploadResets ==
  (ui'.status.color # "success" /\ ui' # ui) => stored' = <<>>

\* C28: after every upload the dashboard either stores data and shows the
\* metrics and analysis sections with the features section hidden, or stores
\* nothing, hides metrics and analysis and shows the features section; data
\* is stored exactly after a successful parse, so a failed or refused upload
\* after a successful one leaves none stored.
C28_OneOfTwoStates ==
  /\ [](DataShown \/ NothingShown)
  /\ [](DataShown <=> ui.status.color = "success")
  /\ [][FailedUploadResets]_vars

\* A second upload that failed: nothing stored, the sections hidden.
C28_Witness ==
  /\ logger.handlers = 2
  /\ ErrorShown
  /\ NothingShown

\* C29: however many ErrorHandler instances were made, the shared logger has
\* at most one file handler, and a handled error is written once.
C29_OneHandlerOneRecord ==
  /\ logger.handlers <= 1
  /\ logger.errors <= 1

====
